---- MODULE Spec2Model ----
(***************************************************************************)
(* A model of git_rs: the object codec (serialize / parse_from_raw), the   *)
(* commit parser (create_commit), the object store (write / read_from_sha1 *)
(* over the repository's file tree) and the history walk of the "log"      *)
(* command.  Byte strings are sequences of integers 0..255; a Rust String  *)
(* is a byte sequence that is valid UTF-8.                                 *)
(***************************************************************************)
EXTENDS Integers, Sequences, FiniteSets, TLC

VARIABLES
    phase,      \* which entry point this behaviour exercises
    pc,         \* position inside that entry point
    obj,        \* the GitObject under construction / being written
    input,      \* the bytes handed to the entry point
    enc,        \* result of GitObject::serialize
    dec,        \* result of the decoder (parse_from_raw after inflation)
    reenc,      \* result of serializing the decoded object again
    fs,         \* the file tree below the repository's gitdir
    hist,       \* the store operations performed so far, oldest first
    parents,    \* the worklist of the "log" command (Set<String>.items)
    emitted,    \* the addresses printed by "log", in order
    reads,      \* number of objects "log" has read
    graph       \* the parent links the store of a "log" run was built from

vars == <<phase, pc, obj, input, enc, dec, reenc, fs, hist, parents, emitted, reads, graph>>

-----------------------------------------------------------------------------
(* Byte constants used by the source.                                      *)

SP == 32
NUL == 0
LF == 10
CR == 13

BlobName == <<98, 108, 111, 98>>
TreeName == <<116, 114, 101, 101>>
CommitName == <<99, 111, 109, 109, 105, 116>>
TagName == <<116, 97, 103>>

-----------------------------------------------------------------------------
(* Slices and searches over byte sequences.                                *)

\* s[..n], cut at the end of s (callers guard the slices Rust would refuse)
Take(s, n) == SubSeq(s, 1, IF n < Len(s) THEN n ELSE Len(s))

Drop(s, n) == SubSeq(s, n + 1, Len(s))

\* Iterator::position: 0-based index of the first element equal to b, -1 for None.
Position(s, b) ==
    IF \E i \in 1..Len(s) : s[i] = b
    THEN (CHOOSE i \in 1..Len(s) : s[i] = b /\ \A j \in 1..(i - 1) : s[j] # b) - 1
    ELSE -1

\* str::find: 0-based index of the first occurrence of pat in s, -1 for None.
Find(s, pat) ==
    LET n == Len(pat)
        hit(i) == SubSeq(s, i, i + n - 1) = pat
        cand == {i \in 1..(Len(s) - n + 1) : hit(i)}
    IN IF cand = {} THEN -1
       ELSE (CHOOSE i \in cand : \A j \in cand : i <= j) - 1

-----------------------------------------------------------------------------
(* String::from_utf8 accepts exactly the well-formed UTF-8 sequences.      *)

IsCont(b) == b >= 128 /\ b <= 191

\* Length of the well-formed UTF-8 scalar starting at s[i], 0 when there is none.
Utf8Width(s, i) ==
    LET b == s[i]
        n == Len(s)
        c(k) == i + k <= n /\ IsCont(s[i + k])
    IN IF b < 128 THEN 1
       ELSE IF b >= 194 /\ b <= 223 THEN (IF c(1) THEN 2 ELSE 0)
       ELSE IF b = 224 THEN (IF c(1) /\ c(2) /\ s[i + 1] >= 160 THEN 3 ELSE 0)
       ELSE IF b = 237 THEN (IF c(1) /\ c(2) /\ s[i + 1] <= 159 THEN 3 ELSE 0)
       ELSE IF b >= 225 /\ b <= 239 THEN (IF c(1) /\ c(2) THEN 3 ELSE 0)
       ELSE IF b = 240 THEN (IF c(1) /\ c(2) /\ c(3) /\ s[i + 1] >= 144 THEN 4 ELSE 0)
       ELSE IF b = 244 THEN (IF c(1) /\ c(2) /\ c(3) /\ s[i + 1] <= 143 THEN 4 ELSE 0)
       ELSE IF b >= 241 /\ b <= 243 THEN (IF c(1) /\ c(2) /\ c(3) THEN 4 ELSE 0)
       ELSE 0

\* Well-formed means: the first byte starts a scalar, every byte that is no
\* continuation byte starts a well-formed scalar, and what follows a scalar
\* is the end or the start of the next one.
IsUtf8(s) ==
    /\ Len(s) > 0 => ~IsCont(s[1])
    /\ \A i \in 1..Len(s) :
          ~IsCont(s[i]) =>
              LET w == Utf8Width(s, i)
              IN w > 0 /\ (i + w <= Len(s) => ~IsCont(s[i + w]))

-----------------------------------------------------------------------------
(* Decimal formatting ({} of a usize) and parsing (str::parse::<usize>).   *)

RECURSIVE DecStr(_)
DecStr(n) ==
    IF n < 10 THEN <<48 + n>>
    ELSE DecStr(n \div 10) \o <<48 + (n % 10)>>

IsDigit(b) == b >= 48 /\ b <= 57

RECURSIVE StripZeros(_)
StripZeros(s) ==
    IF Len(s) > 0 /\ s[1] = 48 THEN StripZeros(Tail(s)) ELSE s

RECURSIVE DigitsValue(_)
DigitsValue(s) ==
    IF s = <<>> THEN 0
    ELSE 10 * DigitsValue(Take(s, Len(s) - 1)) + (s[Len(s)] - 48)

\* usize::MAX on a 64-bit target, 18446744073709551615, as decimal digits.
UsizeMaxDigits == <<49,56,52,52,54,55,52,52,48,55,51,55,48,57,53,53,49,54,49,53>>

\* a > b for two digit strings of the same length
DigitsGreater(a, b) ==
    \E i \in 1..Len(a) : a[i] > b[i] /\ \A j \in 1..(i - 1) : a[j] = b[j]

\* Values too large for the checker's integers are kept as digits: wide = TRUE.
NoNumber == [ok |-> FALSE, wide |-> FALSE, val |-> 0]

ParseUsize(s) ==
    LET body == IF Len(s) > 0 /\ s[1] = 43 THEN Tail(s) ELSE s
        sig == StripZeros(body)
    IN IF body = <<>> \/ \E i \in 1..Len(body) : ~IsDigit(body[i]) THEN NoNumber
       ELSE IF Len(sig) > Len(UsizeMaxDigits) THEN NoNumber
       ELSE IF Len(sig) = Len(UsizeMaxDigits) /\ DigitsGreater(sig, UsizeMaxDigits)
            THEN NoNumber
       ELSE IF Len(sig) > 9 THEN [ok |-> TRUE, wide |-> TRUE, val |-> 0]
       ELSE [ok |-> TRUE, wide |-> FALSE, val |-> DigitsValue(sig)]

-----------------------------------------------------------------------------
(* Results.  Ok carries a value, Err is an anyhow error returned to the    *)
(* caller (msg is its text), Panic is an unwrap / index / slice abort.     *)

NoSig == [some |-> FALSE, val |-> <<>>]

NoObject ==
    [kind |-> "None", raw_data |-> <<>>, tree |-> <<>>, parent |-> <<>>,
     author |-> <<>>, committer |-> <<>>, gpgsig |-> NoSig, message |-> <<>>,
     entries |-> <<>>]

\* GitObject::Blob / Tree / Tag { raw_data }
Plain(kind, data) == [NoObject EXCEPT !.kind = kind, !.raw_data = data]

Ok(o) == [tag |-> "Ok", msg |-> "", obj |-> o]
Err(m) == [tag |-> "Err", msg |-> m, obj |-> NoObject]
Panic(m) == [tag |-> "Panic", msg |-> m, obj |-> NoObject]
NoResult == [tag |-> "None", msg |-> "", obj |-> NoObject]

OkBytes(b) == [tag |-> "Ok", msg |-> "", bytes |-> b]
PanicBytes(m) == [tag |-> "Panic", msg |-> m, bytes |-> <<>>]
NoBytes == [tag |-> "None", msg |-> "", bytes |-> <<>>]

get_git_type(o) ==
    CASE o.kind = "Blob" -> BlobName
      [] o.kind = "Commit" -> CommitName
      [] o.kind = "Tree" -> TreeName
      [] o.kind = "Tag" -> TagName

\* format!("{} {}\0{}", type, data.len(), String::from_utf8(data).unwrap())
serialize(o) ==
    IF ~IsUtf8(o.raw_data) THEN PanicBytes("from_utf8 unwrap")
    ELSE OkBytes(get_git_type(o) \o <<SP>> \o DecStr(Len(o.raw_data))
                 \o <<NUL>> \o o.raw_data)

-----------------------------------------------------------------------------
(* SHA-1 (the sha1 crate) over byte sequences and hex::encode of the       *)
(* digest.  A 32-bit word is a pair <<high 16 bits, low 16 bits>>.         *)

RECURSIVE BitOp(_, _, _, _)
\* bitwise op on two naturals below 2^n, given by its truth table tt[2*a+b+1]
BitOp(tt, a, b, n) ==
    IF n = 0 THEN 0
    ELSE tt[2 * (a % 2) + (b % 2) + 1] + 2 * BitOp(tt, a \div 2, b \div 2, n - 1)

XorNib == [a \in 0..15 |-> [b \in 0..15 |-> BitOp(<<0, 1, 1, 0>>, a, b, 4)]]
AndNib == [a \in 0..15 |-> [b \in 0..15 |-> BitOp(<<0, 0, 0, 1>>, a, b, 4)]]
OrNib == [a \in 0..15 |-> [b \in 0..15 |-> BitOp(<<0, 1, 1, 1>>, a, b, 4)]]

Half(tab, a, b) ==
    tab[a % 16][b % 16]
    + 16 * tab[(a \div 16) % 16][(b \div 16) % 16]
    + 256 * tab[(a \div 256) % 16][(b \div 256) % 16]
    + 4096 * tab[a \div 4096][b \div 4096]

Xor(a, b) == <<Half(XorNib, a[1], b[1]), Half(XorNib, a[2], b[2])>>
And(a, b) == <<Half(AndNib, a[1], b[1]), Half(AndNib, a[2], b[2])>>
Or(a, b) == <<Half(OrNib, a[1], b[1]), Half(OrNib, a[2], b[2])>>
Not(a) == <<65535 - a[1], 65535 - a[2]>>

Add(a, b) ==
    LET lo == a[2] + b[2]
    IN <<(a[1] + b[1] + lo \div 65536) % 65536, lo % 65536>>

Pow2(n) == 2 ^ n

\* rotate left by n, 0 < n < 16
RotlSmall(a, n) ==
    <<((a[1] * Pow2(n)) % 65536) + (a[2] \div Pow2(16 - n)),
      ((a[2] * Pow2(n)) % 65536) + (a[1] \div Pow2(16 - n))>>

Rotl(a, n) == IF n < 16 THEN RotlSmall(a, n) ELSE RotlSmall(<<a[2], a[1]>>, n - 16)

\* message padding: 0x80, zeros to 56 mod 64, then the bit length in 64 bits
Pad(msg) ==
    LET n == Len(msg)
        zeros == (55 - n) % 64
        bits == 8 * n
    IN msg \o <<128>> \o [i \in 1..zeros |-> 0]
       \o <<0, 0, 0, 0, (bits \div 16777216) % 256, (bits \div 65536) % 256,
            (bits \div 256) % 256, bits % 256>>

WordAt(m, i) == <<m[i] * 256 + m[i + 1], m[i + 2] * 256 + m[i + 3]>>

\* The next n words of the message schedule appended to w.  The range is
\* halved, the first half being evaluated before the second is entered.
RECURSIVE Schedule(_, _)
Schedule(w, n) ==
    LET t == Len(w) + 1
        x1 == Xor(w[t - 3], w[t - 8])
        x2 == Xor(w[t - 14], w[t - 16])
        x3 == Xor(x1, x2)
        half == Schedule(w, n \div 2)
    IN IF n = 0 THEN w
       ELSE IF n = 1
       THEN (IF x1 = <<>> \/ x2 = <<>> \/ x3 = <<>> THEN w ELSE Append(w, Rotl(x3, 1)))
       ELSE IF half = <<>> THEN half
       ELSE Schedule(half, n - n \div 2)

F(t, b, c, d) ==
    IF t < 20 THEN Or(And(b, c), And(Not(b), d))
    ELSE IF t < 40 THEN Xor(Xor(b, c), d)
    ELSE IF t < 60 THEN Or(Or(And(b, c), And(b, d)), And(c, d))
    ELSE Xor(Xor(b, c), d)

K(t) ==
    IF t < 20 THEN <<23170, 31129>>
    ELSE IF t < 40 THEN <<28377, 60321>>
    ELSE IF t < 60 THEN <<36635, 48348>>
    ELSE <<51810, 49622>>

\* round t on the state s = <<a, b, c, d, e>>:
\* tmp = rotl(a, 5) + f(t, b, c, d) + e + K(t) + w[t]
Round(s, w, t) ==
    LET r5 == Rotl(s[1], 5)
        f == F(t, s[2], s[3], s[4])
        s1 == Add(r5, f)
        s2 == Add(s1, s[5])
        s3 == Add(s2, K(t))
        tmp == Add(s3, w[t + 1])
    \* the terms of the sum are evaluated one after the other
    IN IF r5 = <<>> \/ f = <<>> \/ s1 = <<>> \/ s2 = <<>> \/ s3 = <<>> THEN s
       ELSE <<tmp, s[1], Rotl(s[2], 30), s[3], s[4]>>

\* Rounds t .. t + n - 1.  The range is halved, the first half being
\* evaluated before the second is entered.
RECURSIVE Rounds(_, _, _, _)
Rounds(s, w, t, n) ==
    LET half == Rounds(s, w, t, n \div 2)
    IN IF n = 0 THEN s
       ELSE IF n = 1 THEN Round(s, w, t)
       ELSE IF half = <<>> THEN half
       ELSE Rounds(half, w, t + n \div 2, n - n \div 2)

RECURSIVE Blocks(_, _, _)
Blocks(h, m, at) ==
    IF at > Len(m) THEN h
    ELSE LET w == Schedule(<<WordAt(m, at), WordAt(m, at + 4), WordAt(m, at + 8),
                               WordAt(m, at + 12), WordAt(m, at + 16), WordAt(m, at + 20),
                               WordAt(m, at + 24), WordAt(m, at + 28), WordAt(m, at + 32),
                               WordAt(m, at + 36), WordAt(m, at + 40), WordAt(m, at + 44),
                               WordAt(m, at + 48), WordAt(m, at + 52), WordAt(m, at + 56),
                               WordAt(m, at + 60)>>, 64)
             r == Rounds(h, w, 0, 80)
             nh == <<Add(h[1], r[1]), Add(h[2], r[2]), Add(h[3], r[3]),
                     Add(h[4], r[4]), Add(h[5], r[5])>>
         \* the schedule, the rounds and the sums are evaluated in this order
         \* before the next block is entered
         IN IF w = <<>> \/ r = <<>> \/ nh = <<>> THEN nh ELSE Blocks(nh, m, at + 64)

Sha1Init == <<<<26437, 8961>>, <<61389, 43913>>, <<39098, 56574>>, <<4146, 21622>>, <<50130, 57840>>>>

Sha1(msg) ==
    LET m == Pad(msg)
    IN IF m = <<>> THEN m ELSE Blocks(Sha1Init, m, 1)

HexDigit(n) == IF n < 10 THEN 48 + n ELSE 87 + n
HexHalf(h) == <<HexDigit(h \div 4096), HexDigit((h \div 256) % 16), HexDigit((h \div 16) % 16), HexDigit(h % 16)>>
HexWord(w) == HexHalf(w[1]) \o HexHalf(w[2])
HexWords(ws) ==
    HexWord(ws[1]) \o HexWord(ws[2]) \o HexWord(ws[3]) \o HexWord(ws[4]) \o HexWord(ws[5])
Sha1Hex(msg) ==
    LET digest == Sha1(msg)
    IN IF digest = <<>> THEN digest ELSE HexWords(digest)


\* GitObject::hash: hex SHA-1 of the serialized form
hash(o) ==
    LET ser == serialize(o)
    IN IF ser.tag = "Ok" THEN OkBytes(Sha1Hex(ser.bytes)) ELSE ser

-----------------------------------------------------------------------------
(* The commit parser.                                                      *)

NLNL == <<LF, LF>>
GpgMarker == <<LF, 103, 112, 103, 115, 105, 103>>
ParentKey == <<112, 97, 114, 101, 110, 116>>
TreeKey == TreeName
AuthorKey == <<97, 117, 116, 104, 111, 114>>
CommitterKey == <<99, 111, 109, 109, 105, 116, 116, 101, 114>>

\* str::split(pat): the pieces between successive occurrences of pat.
RECURSIVE Split(_, _)
Split(s, pat) ==
    LET at == Find(s, pat)
    IN IF at = -1 THEN <<s>>
       ELSE <<Take(s, at)>> \o Split(Drop(s, at + Len(pat)), pat)

\* str::lines: split after each LF; a line loses its LF and a CR before it.
RECURSIVE Lines(_)
Lines(s) ==
    IF s = <<>> THEN <<>>
    ELSE LET at == Position(s, LF)
         IN IF at = -1 THEN <<s>>
            ELSE LET raw == Take(s, at)
                     line == IF Len(raw) > 0 /\ raw[Len(raw)] = CR
                             THEN Take(raw, Len(raw) - 1) ELSE raw
                 IN <<line>> \o Lines(Drop(s, at + 1))

\* Width in bytes of the White_Space character that ends s, 0 when there is none.
TrailingWhite(s) ==
    LET n == Len(s)
        b(k) == s[n - k]
    IN IF n >= 1 /\ ((b(0) >= 9 /\ b(0) <= 13) \/ b(0) = SP) THEN 1
       ELSE IF n >= 2 /\ b(1) = 194 /\ b(0) \in {133, 160} THEN 2
       ELSE IF n >= 3 /\ b(2) = 225 /\ b(1) = 154 /\ b(0) = 128 THEN 3
       ELSE IF n >= 3 /\ b(2) = 226 /\ b(1) = 128
               /\ ((b(0) >= 128 /\ b(0) <= 138) \/ b(0) \in {168, 169, 175}) THEN 3
       ELSE IF n >= 3 /\ b(2) = 226 /\ b(1) = 129 /\ b(0) = 159 THEN 3
       ELSE IF n >= 3 /\ b(2) = 227 /\ b(1) = 128 /\ b(0) = 128 THEN 3
       ELSE 0

RECURSIVE trim_end(_)
trim_end(s) ==
    LET w == TrailingWhite(s)
    IN IF w = 0 THEN s ELSE trim_end(Take(s, Len(s) - w))

\* HashMap::insert
Insert(m, k, v) == [x \in DOMAIN m \cup {k} |-> IF x = k THEN v ELSE m[x]]

\* HashMap::get(k).unwrap_or(&String::new())
GetOrEmpty(m, k) == IF k \in DOMAIN m THEN m[k] ELSE <<>>

EmptyMap == [x \in {} |-> <<>>]

\* One iteration of the loop over header[0].lines().
HeaderLine(m, line) ==
    LET at == Position(line, SP)
        key == Take(line, at)
        value == Drop(line, at + 1)
    IN IF at = -1 THEN m
       ELSE IF key = ParentKey /\ ParentKey \in DOMAIN m
            THEN Insert(m, key, m[ParentKey] \o <<SP>> \o value)
       ELSE Insert(m, key, value)

RECURSIVE HeaderFold(_, _)
HeaderFold(m, lines) ==
    IF lines = <<>> THEN m
    ELSE HeaderFold(HeaderLine(m, Head(lines)), Tail(lines))

\* .split(' ') ... .filter(|s| !s.is_empty())
ParentList(value) == SelectSeq(Split(value, <<SP>>), LAMBDA t : t # <<>>)

create_commit(data) ==
    IF ~IsUtf8(data) THEN Panic("from_utf8 unwrap")
    ELSE LET at == Find(data, NLNL)
         IN IF at = -1 THEN Panic("index out of bounds")
            ELSE LET block == Take(data, at)
                     body == Drop(data, at + Len(NLNL))
                     header == Split(block, GpgMarker)
                     metadata == HeaderFold(EmptyMap, Lines(header[1]))
                 IN Ok([kind |-> "Commit",
                        raw_data |-> data,
                        tree |-> GetOrEmpty(metadata, TreeKey),
                        parent |-> ParentList(GetOrEmpty(metadata, ParentKey)),
                        author |-> GetOrEmpty(metadata, AuthorKey),
                        committer |-> GetOrEmpty(metadata, CommitterKey),
                        gpgsig |-> IF Len(header) >= 2
                                   THEN [some |-> TRUE, val |-> header[2]]
                                   ELSE NoSig,
                        message |-> trim_end(body),
                        entries |-> <<>>])

\* GitObject::new(data, type_)
NewObject(data, type) ==
    CASE type = BlobName -> Ok(Plain("Blob", data))
      [] type = TreeName -> Ok(Plain("Tree", data))
      [] type = CommitName -> create_commit(data)
      [] type = TagName -> Ok(Plain("Tag", data))
      [] OTHER -> Panic("Unknown type")

-----------------------------------------------------------------------------
(* The decoder: parse_from_raw from the inflated bytes on.                 *)

\* The tree parser.  Its code is not among the sources, only its call in
\* parse_from_bytes is; it is modelled from the description of the format:
\* mode up to a space, name up to a NUL, then 20 bytes of hash, repeated until
\* the payload is exhausted.
HashLen == 20

TruncatedTree == "Truncated tree"

\* A failure of create_tree.  The caller hands on what create_tree returns,
\* so the source does not show in which form this failure leaves it.
Fail(m) == [tag |-> "Fail", msg |-> m, obj |-> NoObject]

TreeEntry(mode, name, digest) == [mode |-> mode, name |-> name, hash |-> digest]

RECURSIVE TreeScan(_, _, _)
TreeScan(whole, entries, data) ==
    IF data = <<>>
    THEN Ok([Plain("Tree", whole) EXCEPT !.entries = entries])
    ELSE LET sp == Position(data, SP)
             named == Drop(data, sp + 1)
             nul == Position(named, NUL)
             hashed == Drop(named, nul + 1)
         IN IF sp = -1 THEN Fail(TruncatedTree)
            ELSE IF nul = -1 THEN Fail(TruncatedTree)
            ELSE IF Len(hashed) < HashLen THEN Fail(TruncatedTree)
            ELSE TreeScan(whole,
                          Append(entries, TreeEntry(Take(data, sp), Take(named, nul),
                                                    Take(hashed, HashLen))),
                          Drop(hashed, HashLen))

create_tree(data) == TreeScan(data, <<>>, data)

\* the dispatch with the tree payload handed on unparsed
parse_from_bytes_opaque_tree(fmt, data) ==
    CASE fmt = CommitName -> create_commit(data)
      [] fmt = BlobName -> Ok(Plain("Blob", data))
      [] fmt = TreeName -> Ok(Plain("Tree", data))
      [] fmt = TagName -> Ok(Plain("Tag", data))
      [] OTHER -> Err("Unknown type")

parse_from_bytes(fmt, data) ==
    CASE fmt = CommitName -> create_commit(data)
      [] fmt = BlobName -> Ok(Plain("Blob", data))
      [] fmt = TreeName -> create_tree(data)
      [] fmt = TagName -> Ok(Plain("Tag", data))
      [] OTHER -> Err("Unknown type")

\* the comparison weakened to "declares more than is there"
SizeCheckOnlyShort(size, raw, y) == size.wide \/ size.val > Len(raw) - y - 1

SizeCheck(size, raw, y) == size.wide \/ size.val # Len(raw) - y - 1

decode(raw) ==
    LET x == Position(raw, SP)
    IN IF x = -1 THEN Err("Failed to find space")
       ELSE IF ~IsUtf8(Take(raw, x)) THEN Err("Failed to parse format")
       ELSE LET z == Position(Drop(raw, x + 1), NUL)
                y == 1 + x + z
                digits == SubSeq(raw, x + 2, y)
                size == ParseUsize(digits)
            IN IF z = -1 THEN Err("Failed to find 0 byte")
               ELSE IF ~IsUtf8(digits) THEN Err("Failed to parse the size of the data")
               ELSE IF ~size.ok THEN Panic("parse unwrap")
               ELSE IF SizeCheck(size, raw, y) THEN Err("Malformed object")
               ELSE parse_from_bytes(Take(raw, x), Drop(raw, y + 1))

-----------------------------------------------------------------------------
(* zlib framing (miniz_oxide).  The stream is modelled in its stored-block *)
(* form: header 78 01, one final stored block (01, LEN, NLEN as 16-bit     *)
(* little-endian), the data, and the Adler-32 of the data big-endian.      *)
(* Inflation returns the data of such a stream and fails on any other.     *)

\* The sums <<a, b>> of Adler-32 after the n bytes of s that follow s[i].
\* The range is halved, the first half being evaluated before the second is
\* entered.
RECURSIVE Adler(_, _, _, _)
Adler(ab, s, i, n) ==
    LET half == Adler(ab, s, i, n \div 2)
        a == (ab[1] + s[i + 1]) % 65521
    IN IF n = 0 THEN ab
       ELSE IF n = 1 THEN <<a, (ab[2] + a) % 65521>>
       ELSE IF half = <<>> THEN half
       ELSE Adler(half, s, i + n \div 2, n - n \div 2)

Adler32(s) ==
    LET ab == Adler(<<1, 0>>, s, 0, Len(s))
    IN <<ab[2] \div 256, ab[2] % 256, ab[1] \div 256, ab[1] % 256>>

\* compress_to_vec_zlib(data, 1)
Compress(data) ==
    LET n == Len(data)
    IN <<120, 1, 1, n % 256, n \div 256, 255 - (n % 256), 255 - (n \div 256)>>
       \o data \o Adler32(data)

\* decompress_to_vec_zlib(buf): ok = FALSE for Err(_)
Decompress(buf) ==
    LET n == Len(buf) - 11
        data == SubSeq(buf, 8, 7 + n)
    IN IF /\ n >= 0
          /\ Take(buf, 3) = <<120, 1, 1>>
          /\ buf[4] + 256 * buf[5] = n
          /\ buf[6] = 255 - buf[4] /\ buf[7] = 255 - buf[5]
          /\ Drop(buf, 7 + n) = Adler32(data)
       THEN [ok |-> TRUE, data |-> data]
       ELSE [ok |-> FALSE, data |-> <<>>]

\* parse_from_raw(data): inflate, then decode
parse_from_raw(data) ==
    LET raw == Decompress(data)
    IN IF ~raw.ok THEN Err("Failed to decompress data") ELSE decode(raw.data)

-----------------------------------------------------------------------------
(* The file tree below gitdir.  A path is the sequence of its components;  *)
(* fs maps the paths that exist to a directory or to a file with its bytes.*)

Absent == [kind |-> "absent", data |-> <<>>]
Dir == [kind |-> "dir", data |-> <<>>]
File(bytes) == [kind |-> "file", data |-> bytes]

ObjectsDir == <<111, 98, 106, 101, 99, 116, 115>>

NodeAt(tree, path) == IF path \in DOMAIN tree THEN tree[path] ELSE Absent

\* Path::exists / Path::is_file; a component holding a NUL byte names nothing
Nameable(path) == \A i \in 1..Len(path) : Position(path[i], NUL) = -1
Exists(tree, path) == Nameable(path) /\ path \in DOMAIN tree
IsFile(tree, path) == Exists(tree, path) /\ tree[path].kind = "file"

\* PathBuf::join over the components; joining "" leaves the same location
repo_git_path_vec(comps) == SelectSeq(comps, LAMBDA c : c # <<>>)

Prefixes(path) == {Take(path, k) : k \in 0..Len(path)}

\* std::fs::create_dir_all: ok = FALSE when the path cannot be named or one of
\* its prefixes is a file
CreateDirAll(tree, path) ==
    IF ~Nameable(path) \/ \E q \in Prefixes(path) : IsFile(tree, q)
    THEN [ok |-> FALSE, tree |-> tree]
    ELSE [ok |-> TRUE,
          tree |-> [q \in DOMAIN tree \cup Prefixes(path) |->
                       IF q \in DOMAIN tree THEN tree[q] ELSE Dir]]

\* File::create(path) followed by write_all(bytes)
CreateFile(tree, path, bytes) ==
    [q \in DOMAIN tree \cup {path} |-> IF q = path THEN File(bytes) ELSE tree[q]]

Parent(path) == Take(path, Len(path) - 1)

\* Repository::repo_create_file_vec: the path, and the tree it leaves behind
repo_create_file_vec(tree, comps) ==
    LET path == repo_git_path_vec(comps)
        parent == IF IsFile(tree, path) THEN Parent(path) ELSE path
        made == IF ~Exists(tree, parent) THEN CreateDirAll(tree, parent)
                ELSE [ok |-> TRUE, tree |-> tree]
    IN IF Exists(tree, path) THEN [tag |-> "Ok", path |-> path, tree |-> tree]
       ELSE IF ~made.ok THEN [tag |-> "Panic", path |-> path, tree |-> tree]
       ELSE IF IsFile(made.tree, path)
            THEN [tag |-> "Ok", path |-> path,
                  tree |-> CreateFile(made.tree, path, <<>>)]
       ELSE [tag |-> "Ok", path |-> path, tree |-> made.tree]

NoPath == <<>>

\* GitObject::write: its result, the path it settled on and the tree afterwards
write(tree, o) ==
    LET data == o.raw_data
        before == Take(data, 2)
        after == Drop(data, 2)
        made == repo_create_file_vec(tree, <<ObjectsDir, before, after>>)
        result == serialize(o)
    IN IF Len(data) < 2
       THEN [res |-> Panic("split_at"), path |-> NoPath, tree |-> tree]
       ELSE IF ~IsUtf8(before) \/ ~IsUtf8(after)
       THEN [res |-> Panic("from_utf8 unwrap"), path |-> NoPath, tree |-> tree]
       ELSE IF made.tag = "Panic"
       THEN [res |-> Panic("create_dir_all unwrap"), path |-> made.path, tree |-> made.tree]
       ELSE IF result.tag = "Panic"
       THEN [res |-> Panic(result.msg), path |-> made.path, tree |-> made.tree]
       ELSE IF ~Exists(made.tree, made.path)
       THEN [res |-> Ok(o), path |-> made.path,
             tree |-> CreateFile(made.tree, made.path, Compress(result.bytes))]
       ELSE [res |-> Err("Object already exists"), path |-> made.path, tree |-> made.tree]

\* the read with its is_file test left out
read_without_file_check(tree, sha) ==
    LET path == repo_git_path_vec(<<ObjectsDir, Take(sha, 2), Drop(sha, 2)>>)
    IN IF Len(sha) < 2 \/ ~IsUtf8(Take(sha, 2)) THEN Panic("str slice")
       ELSE IF ~Exists(tree, path) THEN Err("Object does not exist")
       ELSE parse_from_raw(tree[path].data)

\* read_from_sha1(repo, sha)
read_from_sha1(tree, sha) ==
    LET path == repo_git_path_vec(<<ObjectsDir, Take(sha, 2), Drop(sha, 2)>>)
    IN IF Len(sha) < 2 \/ ~IsUtf8(Take(sha, 2)) THEN Panic("str slice")
       ELSE IF ~Exists(tree, path) THEN Err("Object does not exist")
       ELSE IF ~IsFile(tree, path) THEN Err("Object isn't a file")
       ELSE parse_from_raw(tree[path].data)

-----------------------------------------------------------------------------
(* Bounded input spaces.                                                   *)

MaxPayloadLen == 3
MaxRawPayload == 2

RECURSIVE SeqsUpTo(_, _)
SeqsUpTo(S, n) ==
    IF n = 0 THEN {<<>>}
    ELSE LET shorter == SeqsUpTo(S, n - 1)
         IN shorter \cup {Append(s, b) : s \in {t \in shorter : Len(t) = n - 1}, b \in S}

Repeat(b, n) == [i \in 1..n |-> b]

\* NUL, LF, 'a', the two bytes of U+00E9, and a byte no UTF-8 string holds
PayloadBytes == {NUL, LF, 97, 195, 169, 255}

Payloads == SeqsUpTo(PayloadBytes, MaxPayloadLen) \cup {Repeat(97, 10), Repeat(LF, 12)}

TypeArgs == {BlobName, TreeName, CommitName, TagName}

RawTypeFields == {BlobName, TreeName, CommitName, TagName, <<120>>, <<255>>}

RawSizeFields ==
    {<<>>, <<48>>, <<49>>, <<50>>, <<48, 50>>, <<43, 50>>, <<45, 49>>, <<97>>,
     <<49, 97>>, <<255>>, <<49, 48>>, UsizeMaxDigits,
     Take(UsizeMaxDigits, 19) \o <<54>>}

RawPayloads == SeqsUpTo({NUL, LF, 97, 255}, MaxRawPayload)

RawInputs ==
    {t \o a \o n \o b \o p :
        t \in RawTypeFields, a \in {<<>>, <<SP>>}, n \in RawSizeFields,
        b \in {<<>>, <<NUL>>}, p \in RawPayloads}

NoInput == [type |-> <<>>, data |-> <<>>]

-----------------------------------------------------------------------------
(* The codec exercised on its own: GitObject::new, serialize and the       *)
(* decoder, applied to inputs drawn from the bounded spaces above.         *)

StoreIdle == fs = <<>> /\ hist = <<>>
LogIdle == parents = <<>> /\ emitted = <<>> /\ reads = 0 /\ graph = <<>>

CodecInit ==
    /\ phase = "codec"
    /\ \/ pc = "new" /\ input \in [type : TypeArgs, data : Payloads]
       \/ pc = "raw" /\ input \in [type : {<<>>}, data : RawInputs]
    /\ obj = NoResult
    /\ enc = NoBytes
    /\ dec = NoResult
    /\ reenc = NoBytes
    /\ StoreIdle
    /\ LogIdle

\* GitObject::new(data, type_)
New ==
    /\ phase = "codec" /\ pc = "new"
    /\ obj' = NewObject(input.data, input.type)
    /\ pc' = "made"
    /\ UNCHANGED <<phase, input, enc, dec, reenc, fs, hist, parents, emitted, reads, graph>>

\* obj.serialize()
Serialize ==
    /\ phase = "codec" /\ pc = "made" /\ obj.tag = "Ok"
    /\ enc' = serialize(obj.obj)
    /\ pc' = "serialized"
    /\ UNCHANGED <<phase, input, obj, dec, reenc, fs, hist, parents, emitted, reads, graph>>

\* the decoder applied to what serialize produced
DecodeSerialized ==
    /\ phase = "codec" /\ pc = "serialized" /\ enc.tag = "Ok"
    /\ dec' = decode(enc.bytes)
    /\ pc' = "roundtrip"
    /\ UNCHANGED <<phase, input, obj, enc, reenc, fs, hist, parents, emitted, reads, graph>>

\* the decoder applied to arbitrary inflated bytes
Decode ==
    /\ phase = "codec" /\ pc = "raw"
    /\ dec' = decode(input.data)
    /\ pc' = "decoded"
    /\ UNCHANGED <<phase, input, obj, enc, reenc, fs, hist, parents, emitted, reads, graph>>

\* the decoded object serialized again
Reserialize ==
    /\ phase = "codec" /\ pc = "decoded" /\ dec.tag = "Ok"
    /\ reenc' = serialize(dec.obj)
    /\ pc' = "reencoded"
    /\ UNCHANGED <<phase, input, obj, enc, dec, fs, hist, parents, emitted, reads, graph>>

CodecNext == New \/ Serialize \/ DecodeSerialized \/ Decode \/ Reserialize

SpecCodec == CodecInit /\ [][CodecNext]_vars

-----------------------------------------------------------------------------
(* Properties of the codec.                                                *)

\* The header of raw as the format describes it: the first space, the first
\* NUL after it, and the bytes in between.
FirstSpace(raw) == Position(raw, SP)
NulAfterSpace(raw) == Position(Drop(raw, FirstSpace(raw) + 1), NUL)
HasDelimiters(raw) == FirstSpace(raw) # -1 /\ NulAfterSpace(raw) # -1
NulIndex(raw) == FirstSpace(raw) + 1 + NulAfterSpace(raw)
DeclaredDigits(raw) == SubSeq(raw, FirstSpace(raw) + 2, NulIndex(raw))
Declared(raw) == ParseUsize(DeclaredDigits(raw))
ActualLength(raw) == Len(raw) - (NulIndex(raw) + 1)
HasDeclaredLength(raw) == HasDelimiters(raw) /\ Declared(raw).ok
LengthMatches(raw) == ~Declared(raw).wide /\ Declared(raw).val = ActualLength(raw)

\* The error texts of the codec's delimiter, header and length checks.
MalformedObject ==
    {"Failed to find space", "Failed to parse format", "Failed to find 0 byte",
     "Failed to parse the size of the data", "Malformed object"}

Decoded == phase = "codec" /\ pc \in {"decoded", "reencoded"}

\* C6: for every object O of every variant and every payload, UTF-8 or not,
\* empty or not, serialize(O) yields bytes and decoding them yields
\* (type(O), payload(O)).
C6_RoundTrip ==
    /\ phase = "codec" /\ pc \in {"serialized", "roundtrip"} => enc.tag = "Ok"
    /\ phase = "codec" /\ pc = "roundtrip" =>
          /\ dec.tag = "Ok"
          /\ get_git_type(dec.obj) = input.type
          /\ dec.obj.raw_data = input.data

\* C7: every byte sequence B the decoder accepts is reproduced by serializing
\* the decoded object: no accepted B is left without its re-encoding, and the
\* re-encoding is B itself.
C7_ReencodeIdentity ==
    /\ Decoded /\ dec.tag = "Ok" => serialize(dec.obj).tag = "Ok"
    /\ phase = "codec" /\ pc = "reencoded" => reenc = OkBytes(input.data)

\* C8: the decoder succeeds only when the declared length equals the number of
\* bytes after the NUL; when they differ it returns a MalformedObject error
\* and no object.
C8_LengthCheck ==
    Decoded /\ HasDeclaredLength(input.data) =>
        /\ dec.tag = "Ok" => LengthMatches(input.data)
        /\ ~LengthMatches(input.data) =>
              dec.tag = "Err" /\ dec.msg \in MalformedObject /\ dec.obj = NoObject

\* C8 witness: a header that declares one byte more than follows the NUL has
\* been decoded and rejected by the length check.
C8_Witness ==
    /\ Decoded /\ HasDeclaredLength(input.data)
    /\ ~Declared(input.data).wide
    /\ Declared(input.data).val = ActualLength(input.data) + 1
    /\ dec = Err("Malformed object")

\* C9: without a space, without a NUL after the first space, or with a length
\* field that is no decimal number, the decoder returns a MalformedObject
\* error value; it does not abort.
C9_MalformedIsError ==
    Decoded /\ (~HasDelimiters(input.data) \/ ~Declared(input.data).ok) =>
        dec.tag = "Err" /\ dec.msg \in MalformedObject

-----------------------------------------------------------------------------
(* The object store: write and read_from_sha1 over the file tree.          *)

MaxStoreOps == 2

\* Objects a store may already hold, at the paths their SHA-1 gives them.
PreObjects == {Plain("Blob", <<97, 98, 99>>), Plain("Blob", <<>>)}

Address(o) == Sha1Hex(serialize(o).bytes)

FanOut(sha) == <<ObjectsDir, Take(sha, 2), Drop(sha, 2)>>

\* Each such object with its address.
PreStored == {[obj |-> o, sha |-> Address(o)] : o \in PreObjects}

PreAddresses == {e.sha : e \in PreStored}

EmptyStore == [q \in {<<>>, <<ObjectsDir>>} |-> Dir]

StoreWith(entries) ==
    LET files == {FanOut(e.sha) : e \in entries}
        dirs == {<<>>, <<ObjectsDir>>} \cup {Parent(f) : f \in files}
        held(f) == CHOOSE e \in entries : FanOut(e.sha) = f
    IN [q \in dirs \cup files |->
           IF q \in files THEN File(Compress(serialize(held(q).obj).bytes)) ELSE Dir]

InitialStores == {StoreWith(S) : S \in SUBSET PreStored}

\* "", "ab", "abc", a payload that is not UTF-8, one with a NUL byte, and
\* payloads that spell the address of a stored object
StorePayloads ==
    {<<>>, <<97, 98>>, <<97, 98, 99>>, <<97, 98, 255>>, <<97, 98, NUL>>}
    \cup PreAddresses

\* every payload as a blob, and "ab\n\nc" as a commit, a tree and a tag
StoreObjects ==
    {Plain("Blob", d) : d \in StorePayloads}
    \cup {r.obj : r \in {c \in {NewObject(<<97, 98, LF, LF, 99>>, t) :
                                  t \in {CommitName, TreeName, TagName}} :
                            c.tag = "Ok"}}

ReadAddresses == PreAddresses \cup {<<97>>, <<97, 98>>, <<97, 98, 99>>}

CodecIdle ==
    /\ obj = NoResult /\ input = NoInput
    /\ enc = NoBytes /\ dec = NoResult /\ reenc = NoBytes

StoreInit ==
    /\ phase = "store"
    /\ pc = "ready"
    /\ fs \in InitialStores
    /\ hist = <<>>
    /\ CodecIdle
    /\ LogIdle

\* hash-object -w: obj.write(&repo)
Write(o) ==
    /\ phase = "store" /\ Len(hist) < MaxStoreOps
    /\ LET w == write(fs, o)
       IN /\ fs' = w.tree
          /\ hist' = Append(hist, [op |-> "write", obj |-> o, sha |-> <<>>,
                                   path |-> w.path,
                                   before |-> NodeAt(fs, w.path),
                                   after |-> NodeAt(w.tree, w.path),
                                   res |-> w.res])
    /\ UNCHANGED <<phase, pc, obj, input, enc, dec, reenc, parents, emitted, reads, graph>>

\* The path read_from_sha1 looks at, when the address can be sliced.
ReadPath(sha) == IF Len(sha) < 2 THEN NoPath ELSE repo_git_path_vec(FanOut(sha))

\* cat-file: read_from_sha1(&repo, &sha)
Read(sha) ==
    /\ phase = "store" /\ Len(hist) < MaxStoreOps
    /\ hist' = Append(hist, [op |-> "read", obj |-> NoObject, sha |-> sha,
                             path |-> ReadPath(sha),
                             before |-> NodeAt(fs, ReadPath(sha)),
                             after |-> NodeAt(fs, ReadPath(sha)),
                             res |-> read_from_sha1(fs, sha)])
    /\ UNCHANGED <<phase, pc, obj, input, enc, dec, reenc, fs, parents, emitted, reads, graph>>

StoreNext == (\E o \in StoreObjects : Write(o)) \/ (\E sha \in ReadAddresses : Read(sha))

SpecStore == StoreInit /\ [][StoreNext]_vars

-----------------------------------------------------------------------------
(* Properties of the store.                                                *)

Writes == {i \in 1..Len(hist) : hist[i].op = "write"}

\* The path the address of o names: objects/<2 hex chars>/<38 hex chars>.
AddressPath(o) == FanOut(Address(o))

\* C1: write(O) targets objects/<first 2 hex chars of A>/<rest of A>, A the
\* hex SHA-1 of the serialized form of O, whatever the payload bytes are.
C1_PathFromDigest ==
    \A i \in Writes :
        hist[i].path # NoPath /\ serialize(hist[i].obj).tag = "Ok" =>
            hist[i].path = AddressPath(hist[i].obj)

\* C2: a write that finds nothing at the object's path succeeds and leaves a
\* regular file there whose inflated content is the serialized object, so
\* that reading it back yields the object.
C2_FreshWriteStores ==
    \A i \in Writes :
        hist[i].path # NoPath /\ hist[i].before = Absent =>
            /\ hist[i].res.tag = "Ok"
            /\ hist[i].after.kind = "file"
            /\ Decompress(hist[i].after.data)
                  = [ok |-> TRUE, data |-> serialize(hist[i].obj).bytes]
            /\ parse_from_raw(hist[i].after.data).tag = "Ok"
            /\ parse_from_raw(hist[i].after.data).obj.kind = hist[i].obj.kind
            /\ parse_from_raw(hist[i].after.data).obj.raw_data = hist[i].obj.raw_data

\* C3: the first write of an absent object succeeds, writing the same object
\* again fails with "Object already exists" and leaves the stored file as it
\* was; no write changes a file that already exists at its path.
C3_SecondWriteRejected ==
    /\ \A i \in Writes :
          hist[i].path # NoPath /\ hist[i].before = Absent =>
              /\ hist[i].res.tag = "Ok"
              /\ i + 1 \in Writes /\ hist[i + 1].obj = hist[i].obj =>
                    /\ hist[i + 1].res = Err("Object already exists")
                    /\ hist[i + 1].before = hist[i].after
                    /\ hist[i + 1].after = hist[i].after
    /\ \A i \in Writes : hist[i].before.kind = "file" => hist[i].after = hist[i].before

Reads == {i \in 1..Len(hist) : hist[i].op = "read"}

\* An address long enough to have a fan-out path objects/<2>/<rest>.
HasFanOut(sha) == Len(sha) >= 2

ObjectNotFound == Err("Object does not exist")
NotAFile == Err("Object isn't a file")

ReadFailures ==
    \A i \in Reads :
        HasFanOut(hist[i].sha) =>
            /\ hist[i].res = ObjectNotFound <=> hist[i].before = Absent
            /\ hist[i].before = Dir => hist[i].res = NotAFile

ReadStep == Len(hist') = Len(hist) + 1 /\ hist'[Len(hist')].op = "read"

\* C13: in every store state that writes lead to, a read fails with
\* ObjectNotFound exactly when nothing is at the fan-out path of the address,
\* fails with NotAFile when a directory is there, and leaves the store as it
\* was.
C13_ReadFailures == []ReadFailures /\ [][ReadStep => fs' = fs]_vars

\* C13 witness: a write has changed the store, and the read that follows it
\* finds a directory at the fan-out path and fails with NotAFile.
C13_Witness ==
    /\ Len(hist) = 2
    /\ hist[1].op = "write" /\ hist[1].before # hist[1].after
    /\ hist[2].op = "read" /\ HasFanOut(hist[2].sha)
    /\ hist[2].before = Dir /\ hist[2].res = NotAFile


-----------------------------------------------------------------------------
(* The commit parser exercised on its own.                                 *)

MaxHeaderLines == 3

RECURSIVE Join(_, _)
Join(lines, sep) ==
    IF lines = <<>> THEN <<>>
    ELSE IF Len(lines) = 1 THEN lines[1]
    ELSE lines[1] \o sep \o Join(Tail(lines), sep)

\* "parent " and the other keys with their separating space
ParentSp == ParentKey \o <<SP>>
TreeSp == TreeKey \o <<SP>>
AuthorSp == AuthorKey \o <<SP>>
CommitterSp == CommitterKey \o <<SP>>

\* tree T, parent P, parent Q, parent (no value), parent P Q, author A,
\* committer C, gpgsig S, and a line without a space
HeaderLines ==
    {TreeSp \o <<84>>, ParentSp \o <<80>>, ParentSp \o <<81>>, ParentSp,
     ParentSp \o <<80, SP, 81>>, AuthorSp \o <<65>>, CommitterSp \o <<67>>,
     <<103, 112, 103, 115, 105, 103, SP, 83>>, <<120>>}

\* "m\n", nothing, and a message in a legacy 8-bit encoding
Bodies == {<<109, LF>>, <<>>, <<109, 255>>}

MergeBranch == <<77, 101, 114, 103, 101, 32, 98, 114, 97, 110, 99, 104>>

\* "tree T\nparent P1\nparent P2\nauthor A\ncommitter C\n\nMerge branch\n"
ExamplePayload ==
    Join(<<TreeSp \o <<84>>, ParentSp \o <<80, 49>>, ParentSp \o <<80, 50>>,
           AuthorSp \o <<65>>, CommitterSp \o <<67>>>>, <<LF>>)
    \o NLNL \o MergeBranch \o <<LF>>

CommitPayloads ==
    {Join(h, <<LF>>) \o sep \o b :
        h \in SeqsUpTo(HeaderLines, MaxHeaderLines), sep \in {NLNL, <<>>}, b \in Bodies}
    \cup {ExamplePayload}

CommitInit ==
    /\ phase = "commit"
    /\ pc = "payload"
    /\ input \in [type : {CommitName}, data : CommitPayloads]
    /\ obj = NoResult
    /\ enc = NoBytes
    /\ dec = NoResult
    /\ reenc = NoBytes
    /\ StoreIdle
    /\ LogIdle

\* create_commit(data)
ParseCommit ==
    /\ phase = "commit" /\ pc = "payload"
    /\ obj' = create_commit(input.data)
    /\ pc' = "parsed"
    /\ UNCHANGED <<phase, input, enc, dec, reenc, fs, hist, parents, emitted, reads, graph>>

CommitNext == ParseCommit

SpecCommit == CommitInit /\ [][CommitNext]_vars

-----------------------------------------------------------------------------
(* Properties of the commit parser.                                        *)

HasSeparator(payload) == Find(payload, NLNL) # -1

\* The header block, up to where a signature starts.
HeaderSegment(payload) ==
    LET block == Take(payload, Find(payload, NLNL))
        sig == Find(block, GpgMarker)
    IN IF sig = -1 THEN block ELSE Take(block, sig)

\* A parent line: the key, a space, and a value of at least one byte.
IsParentLine(line) == Len(line) > Len(ParentSp) /\ Take(line, Len(ParentSp)) = ParentSp

\* The values of the header's parent lines, in the order of the lines.
ParentValues(payload) ==
    LET lines == SelectSeq(Split(HeaderSegment(payload), <<LF>>), IsParentLine)
    IN [i \in 1..Len(lines) |-> Drop(lines[i], Len(ParentSp))]

SpaceFree(values) == \A i \in 1..Len(values) : Position(values[i], SP) = -1

Parsed == phase = "commit" /\ pc = "parsed"

\* C10: a commit payload with a header/body separator parses, and the parsed
\* parent list is the values of the header's parent lines in encounter order
\* (for values free of spaces); the example payload parses to tree T,
\* parents P1 P2, author A, committer C, message "Merge branch", no signature.
C10_ParentsInOrder ==
    /\ Parsed /\ HasSeparator(input.data) /\ SpaceFree(ParentValues(input.data)) =>
          obj.tag = "Ok" /\ obj.obj.parent = ParentValues(input.data)
    /\ Parsed /\ input.data = ExamplePayload =>
          obj = Ok([kind |-> "Commit", raw_data |-> ExamplePayload, tree |-> <<84>>,
                    parent |-> <<<<80, 49>>, <<80, 50>>>>, author |-> <<65>>,
                    committer |-> <<67>>, gpgsig |-> NoSig, message |-> MergeBranch,
                    entries |-> <<>>])

\* The header block: the payload up to its first blank line.
HeaderBlock(payload) == Take(payload, Find(payload, NLNL))

NoFields(o) ==
    /\ o.tree = <<>> /\ o.parent = <<>> /\ o.author = <<>>
    /\ o.committer = <<>> /\ o.gpgsig = NoSig

\* C11: a commit payload without a blank-line separator fails with the
\* MalformedCommit error value, and a payload with the separator parses; one
\* with the separator and an empty header block parses with every field empty
\* and no signature.
C11_OnlySeparatorFails ==
    /\ Parsed /\ ~HasSeparator(input.data) =>
          obj.tag = "Err" /\ obj.msg = "Malformed commit"
    /\ Parsed /\ HasSeparator(input.data) => obj.tag = "Ok"
    /\ Parsed /\ HasSeparator(input.data) /\ HeaderBlock(input.data) = <<>> =>
          NoFields(obj.obj)

\* C12: of a parsed commit whose header block holds the marker "\ngpgsig", the
\* signature is all of the header block after the first marker, later markers
\* included; without the marker there is no signature.
C12_SignatureVerbatim ==
    Parsed /\ obj.tag = "Ok" =>
        LET block == HeaderBlock(input.data)
            at == Find(block, GpgMarker)
        IN obj.obj.gpgsig =
              IF at = -1 THEN NoSig
              ELSE [some |-> TRUE, val |-> Drop(block, at + Len(GpgMarker))]

-----------------------------------------------------------------------------
(* Blob creation from working-tree bytes.                                  *)

MaxBlobLen == 4

\* The while loop of crlf_to_lf: data[1] is read whenever data[0] is a CR.
RECURSIVE CrlfLoop(_, _)
CrlfLoop(result, data) ==
    IF data = <<>> THEN OkBytes(result)
    ELSE IF data[1] = CR /\ Len(data) < 2 THEN PanicBytes("index out of bounds")
    ELSE IF data[1] = CR /\ data[2] = LF THEN CrlfLoop(Append(result, LF), Drop(data, 2))
    ELSE CrlfLoop(Append(result, data[1]), Drop(data, 1))

crlf_to_lf(data) == CrlfLoop(<<>>, data)

\* GitBlob::new(data): GitBlob { raw_data: crlf_to_lf(&data) }
GitBlob_new(data) ==
    LET r == crlf_to_lf(data)
    IN IF r.tag = "Ok" THEN Ok(Plain("Blob", r.bytes)) ELSE Panic(r.msg)

\* file contents over CR, LF and "a"
BlobInputs == SeqsUpTo({CR, LF, 97}, MaxBlobLen)

BlobInit ==
    /\ phase = "blob"
    /\ pc = "bytes"
    /\ input \in [type : {BlobName}, data : BlobInputs]
    /\ obj = NoResult
    /\ enc = NoBytes
    /\ dec = NoResult
    /\ reenc = NoBytes
    /\ StoreIdle
    /\ LogIdle

\* hash-object: GitObject::new(buf, "blob")
NewBlob ==
    /\ phase = "blob" /\ pc = "bytes"
    /\ obj' = NewObject(input.data, input.type)
    /\ pc' = "created"
    /\ UNCHANGED <<phase, input, enc, dec, reenc, fs, hist, parents, emitted, reads, graph>>

\* the trait-based draft: GitBlob::new(data)
NewGitBlob ==
    /\ phase = "blob" /\ pc = "bytes"
    /\ obj' = GitBlob_new(input.data)
    /\ pc' = "normalized"
    /\ UNCHANGED <<phase, input, enc, dec, reenc, fs, hist, parents, emitted, reads, graph>>

BlobNext == NewBlob \/ NewGitBlob

SpecBlob == BlobInit /\ [][BlobNext]_vars

-----------------------------------------------------------------------------
(* Properties of blob creation.                                            *)

\* s with every CR LF pair replaced by one LF, all else kept in order.
RECURSIVE Normalized(_)
Normalized(s) ==
    IF s = <<>> THEN <<>>
    ELSE IF Len(s) >= 2 /\ s[1] = CR /\ s[2] = LF THEN <<LF>> \o Normalized(Drop(s, 2))
    ELSE <<s[1]>> \o Normalized(Drop(s, 1))

BlobCreated == phase = "blob" /\ pc \in {"created", "normalized"}

\* C14: a Blob created from working-tree bytes carries those bytes with every
\* CR LF pair replaced by one LF and nothing else changed, for every input,
\* one that ends in a lone CR included.
C14_CrlfNormalized ==
    BlobCreated => obj = Ok(Plain("Blob", Normalized(input.data)))

-----------------------------------------------------------------------------
(* The history walk of the "log" command.                                  *)

MaxParents == 2
MaxReads == 6

\* Set<T>::contains / add / append / remove over the items vector
Contains(items, x) == \E i \in 1..Len(items) : items[i] = x

SetAdd(items, x) == IF Contains(items, x) THEN items ELSE Append(items, x)

\* an append that takes over only the first item
SetAppendFirst(items, other) ==
    IF other = <<>> THEN items ELSE SetAdd(items, Head(other))

RECURSIVE SetAppend(_, _)
SetAppend(items, other) ==
    IF other = <<>> THEN items
    ELSE SetAppend(SetAdd(items, Head(other)), Tail(other))

\* aa1 aa2 aa3 aa4
Addr(k) == <<97, 97, 48 + k>>
SmallAddrs == {Addr(1), Addr(2), Addr(3)}
Addrs == SmallAddrs \cup {Addr(4)}

Missing == [kind |-> "missing", parent |-> <<>>]
BlobEntry == [kind |-> "blob", parent |-> <<>>]
CommitEntry(ps) == [kind |-> "commit", parent |-> ps]

Distinct(seq) == \A i, j \in 1..Len(seq) : i # j => seq[i] # seq[j]

ParentChoices == {ps \in SeqsUpTo(SmallAddrs, MaxParents) : Distinct(ps)}

Entries == {Missing, BlobEntry} \cup {CommitEntry(ps) : ps \in ParentChoices}

\* a merge whose two parents share the parent aa4
Diamond ==
    [a \in Addrs |->
        IF a = Addr(1) THEN CommitEntry(<<Addr(2), Addr(3)>>)
        ELSE IF a = Addr(4) THEN CommitEntry(<<>>)
        ELSE CommitEntry(<<Addr(4)>>)]

Graphs ==
    {[a \in Addrs |-> IF a = Addr(4) THEN Missing ELSE g[a]] : g \in [SmallAddrs -> Entries]}
    \cup {Diamond}

\* "tree T\n" "parent <p>\n" ... "\n" "m\n"
CommitPayload(ps) ==
    Join(<<TreeSp \o <<84>>>> \o [i \in 1..Len(ps) |-> ParentSp \o ps[i]], <<LF>>)
    \o NLNL \o <<109, LF>>

StoredBytes(entry) ==
    IF entry.kind = "commit"
    THEN Compress(CommitName \o <<SP>> \o DecStr(Len(CommitPayload(entry.parent)))
                  \o <<NUL>> \o CommitPayload(entry.parent))
    ELSE Compress(BlobName \o <<SP, 49, NUL, 98>>)

GraphStore(g) ==
    LET held == {a \in DOMAIN g : g[a].kind # "missing"}
        dirs == {<<>>, <<ObjectsDir>>, <<ObjectsDir, <<97, 97>>>>}
    IN [q \in dirs \cup {FanOut(a) : a \in held} |->
           IF q \in dirs THEN Dir
           ELSE File(StoredBytes(g[CHOOSE a \in held : FanOut(a) = q]))]

LogInit ==
    /\ phase = "log"
    /\ pc = "start"
    /\ graph \in Graphs
    /\ fs = GraphStore(graph)
    /\ hist = <<>>
    /\ parents = <<>> /\ emitted = <<>> /\ reads = 0
    /\ CodecIdle

\* parents.add(args[1].clone())
LogStart(a) ==
    /\ phase = "log" /\ pc = "start"
    /\ parents' = SetAdd(parents, a)
    /\ input' = [type |-> <<>>, data |-> a]
    /\ pc' = "loop"
    /\ UNCHANGED <<phase, obj, enc, dec, reenc, fs, hist, emitted, reads, graph>>

\* one turn of `while !parents.is_empty()`
LogStep ==
    /\ phase = "log" /\ pc = "loop" /\ parents # <<>> /\ reads < MaxReads
    /\ LET last == parents[Len(parents)]
           rest == Take(parents, Len(parents) - 1)
           r == read_from_sha1(fs, last)
       IN IF r.tag # "Ok"
          THEN /\ pc' = "panic"
               /\ parents' = rest
               /\ UNCHANGED <<emitted, reads>>
          ELSE IF r.obj.kind = "Commit"
          THEN /\ parents' = SetAppend(rest, r.obj.parent)
               /\ emitted' = Append(emitted, last)
               /\ reads' = reads + 1
               /\ pc' = "loop"
          ELSE /\ pc' = "error"
               /\ parents' = rest
               /\ reads' = reads + 1
               /\ UNCHANGED emitted
    /\ UNCHANGED <<phase, obj, input, enc, dec, reenc, fs, hist, graph>>

\* the loop ends and main returns Ok(())
LogDone ==
    /\ phase = "log" /\ pc = "loop" /\ parents = <<>>
    /\ pc' = "done"
    /\ UNCHANGED <<phase, obj, input, enc, dec, reenc, fs, hist, parents, emitted, reads, graph>>

\* The family of graphs is closed under renaming aa1..aa3, so one start serves.
StartAddrs == {Addr(1)}

LogNext == (\E a \in StartAddrs : LogStart(a)) \/ LogStep \/ LogDone

SpecLog == LogInit /\ [][LogNext]_vars

-----------------------------------------------------------------------------
(* Properties of the history walk.                                         *)

Walking == phase = "log" /\ pc # "start"

ParentsOf(a) ==
    IF a \in DOMAIN graph /\ graph[a].kind = "commit"
    THEN {graph[a].parent[i] : i \in 1..Len(graph[a].parent)}
    ELSE {}

RECURSIVE ReachFrom(_)
ReachFrom(S) ==
    LET next == S \cup UNION {ParentsOf(a) : a \in S}
    IN IF next = S THEN S ELSE ReachFrom(next)

\* The addresses reachable from the start of the walk through parent links.
Reachable == ReachFrom({input.data})

Times(a) == Cardinality({i \in 1..Len(emitted) : emitted[i] = a})

\* C4: a history walk emits no address more than once; on the diamond the
\* shared ancestor is emitted exactly once by the time the walk ends.
C4_EmittedOnce ==
    /\ Walking => \A a \in Addrs : Times(a) <= 1
    /\ Walking /\ graph = Diamond /\ input.data = Addr(1) /\ pc = "done" =>
          Times(Addr(4)) = 1

\* C5: the walk reads at most as many commits as there are distinct addresses
\* reachable from its start, on every store, cyclic ones included, so its
\* worklist runs empty.
C5_ReadsBounded == Walking => reads <= Cardinality(Reachable)

\* Every reachable address holds a commit, and no commit is its own ancestor.
AllCommits == \A a \in Reachable : graph[a].kind = "commit"
Acyclic == \A a \in Reachable : a \notin ReachFrom(ParentsOf(a))

Stopped == pc \in {"done", "panic", "error"}

\* C16: on an acyclic history whose reachable addresses all hold readable
\* commits, the walk has emitted every reachable commit by the time it stops,
\* and each emitted commit is the start or a parent of one emitted before it.
C16_EmitsReachable ==
    Walking /\ AllCommits /\ Acyclic =>
        /\ Stopped => \A a \in Reachable : Times(a) >= 1
        /\ \A i \in 1..Len(emitted) :
              \/ emitted[i] = input.data
              \/ \E j \in 1..(i - 1) : emitted[i] \in ParentsOf(emitted[j])

\* C16 witness: the walk over the merge with a shared ancestor has stopped
\* with all four commits emitted.
C16_Witness ==
    /\ Walking /\ graph = Diamond /\ input.data = Addr(1) /\ pc = "done"
    /\ \A a \in Addrs : Times(a) >= 1

-----------------------------------------------------------------------------
(* Reading a stored tree object.                                           *)

MaxTreeEntries == 2

\* 1 "a" hhh..., 40 "" 000..., 1 "a b" and a hash of spaces, 40 "a" hhh...
TreeEntries ==
    {TreeEntry(<<49>>, <<97>>, Repeat(104, HashLen)),
     TreeEntry(<<52, 48>>, <<>>, Repeat(NUL, HashLen)),
     TreeEntry(<<49>>, <<97, SP, 98>>, Repeat(SP, HashLen)),
     TreeEntry(<<52, 48>>, <<97>>, Repeat(104, HashLen))}

\* The payload of a tree: its entries back to back.
RECURSIVE TreeEncode(_)
TreeEncode(entries) ==
    IF entries = <<>> THEN <<>>
    ELSE Head(entries).mode \o <<SP>> \o Head(entries).name \o <<NUL>>
         \o Head(entries).hash \o TreeEncode(Tail(entries))

TreeLists == SeqsUpTo(TreeEntries, MaxTreeEntries)

\* How many bytes a stored payload has lost at its end.
Cuts == {0, 1, 2, HashLen - 1, HashLen, HashLen + 1, HashLen + 2, HashLen + 3}

\* payload without its last c bytes
CutOff(payload, c) == IF c >= Len(payload) THEN <<>> ELSE Take(payload, Len(payload) - c)

TreePayloads == {CutOff(TreeEncode(es), c) : es \in TreeLists, c \in Cuts}

TreeAddress == <<97, 97, 49>>

TreeStore(payload) ==
    [q \in {<<>>, <<ObjectsDir>>, Parent(FanOut(TreeAddress)), FanOut(TreeAddress)} |->
        IF q = FanOut(TreeAddress)
        THEN File(Compress(TreeName \o <<SP>> \o DecStr(Len(payload)) \o <<NUL>> \o payload))
        ELSE Dir]

TreeInit ==
    /\ phase = "tree"
    /\ pc = "stored"
    /\ input \in [type : {TreeName}, data : TreePayloads]
    /\ fs = TreeStore(input.data)
    /\ hist = <<>>
    /\ obj = NoResult
    /\ enc = NoBytes
    /\ dec = NoResult
    /\ reenc = NoBytes
    /\ LogIdle

\* cat-file: read_from_sha1(&repo, &sha)
ReadTree ==
    /\ phase = "tree" /\ pc = "stored"
    /\ dec' = read_from_sha1(fs, TreeAddress)
    /\ pc' = "read"
    /\ UNCHANGED <<phase, obj, input, enc, reenc, fs, hist, parents, emitted, reads, graph>>

TreeNext == ReadTree

SpecTree == TreeInit /\ [][TreeNext]_vars

-----------------------------------------------------------------------------
(* Properties of the tree parser.                                          *)

TreeRead == phase = "tree" /\ pc = "read"

\* The payload is entries back to back with nothing missing.
Complete(payload) == \E es \in TreeLists : TreeEncode(es) = payload

EntriesOf(payload) == CHOOSE es \in TreeLists : TreeEncode(es) = payload

====
